---------------------------- MODULE Spec2Model ----------------------------
(***************************************************************************)
(* Guess-estimation core of zxcvbn-rs (src/src/scoring.rs): the dynamic    *)
(* programme most_guessable_match_sequence with its helpers update,        *)
(* bruteforce_update, make_bruteforce_match and unwind, the estimators it  *)
(* dispatches to, and the unsigned 64-bit / signed 16-bit arithmetic they  *)
(* are carried out in.                                                     *)
(*                                                                         *)
(* u64 values do not fit TLC's integers, so a natural number is a          *)
(* little-endian sequence of 8-bit limbs without leading zero limbs        *)
(* (<<>> is 0); a u64 is such a sequence of at most 8 limbs.               *)
(***************************************************************************)
EXTENDS Integers, Sequences, FiniteSets, TLC

VARIABLES
    password,          \* the password, a sequence of one-character strings
    matches,           \* the candidate matches handed to the search
    exclude_additive,  \* the parameter exclude_additive
    overflow_checks,   \* build profile: TRUE = overflow panics, FALSE = wraps
    matches_by_j,      \* matches partitioned by end index, each sorted by i
    optimal,           \* the tables optimal.m, optimal.pi, optimal.g
    pc,                \* position of the call
    k,                 \* loop variable k of the main loop
    mi,                \* position in matches_by_j[k]
    bi,                \* loop variable i of bruteforce_update
    pending,           \* keys of the table being iterated not yet visited
    uk, ul, ug,        \* unwind's k, l and g
    seq,               \* unwind's optimal_match_sequence
    result,            \* the GuessCalculation returned (<<>> before return)
    prev,              \* the GuessCalculation of the previous call on this input
    calc,              \* arithmetic of the last update: <<[exact, got], ...>>
    dm,                \* the date match handed to the date estimator
    dres,              \* what the date estimator returned (<<>> before)
    nck                \* the calls of n_ck: arguments, frame, results

vars == <<password, matches, exclude_additive, overflow_checks, matches_by_j,
          optimal, pc, k, mi, bi, pending, uk, ul, ug, seq, result, prev,
          calc, dm, dres, nck>>

-----------------------------------------------------------------------------
(* Bounds of the model *)

\* longest password of the general inputs
MaxLen == 3
\* most candidate matches of the general inputs
MaxMatches == 2
\* length of the long passwords (additive penalty against bruteforce)
LongLen == 9
\* length of the password whose bruteforce estimate leaves 64 bits
HugeLen == 21
\* years handed to the date estimator
YearMin == 1000
YearMax == 2050
\* largest small n and largest small k handed to n_ck
NckMaxN == 64
NckMaxK == 65

-----------------------------------------------------------------------------
(* Natural numbers as limb sequences *)

U64Bits == 64
I16Bits == 16
Base == 2^8
U64Limbs == U64Bits \div 8

None == <<>>
Some(x) == <<x>>
Unwrap(o) == o[1]

Min2(a, b) == IF a <= b THEN a ELSE b
Max2(a, b) == IF a >= b THEN a ELSE b

\* limb p of x, 0 beyond its length
Limb(x, p) == IF p >= 1 /\ p <= Len(x) THEN x[p] ELSE 0

Highest(S) == CHOOSE p \in S : \A q \in S : q <= p

\* position of the most significant non-zero limb, 0 when there is none
Top(x) ==
    IF \A p \in 1..Len(x) : x[p] = 0 THEN 0
    ELSE Highest({p \in 1..Len(x) : x[p] # 0})

\* x without leading zero limbs
Norm(x) == SubSeq(x, 1, Top(x))

\* an integer of TLC (below 2^31) has at most four limbs
FromNat(n) == Norm([p \in 1..4 |-> (n \div Base^(p - 1)) % Base])

\* the carry into limb p of a + b: a lower limb generates one and every limb
\* between passes it on
Carry(a, b, p) ==
    \E j \in 1..(p - 1) :
        /\ Limb(a, j) + Limb(b, j) >= Base
        /\ \A i \in (j + 1)..(p - 1) : Limb(a, i) + Limb(b, i) = Base - 1

AddLimb(a, b, p) ==
    (Limb(a, p) + Limb(b, p) + (IF Carry(a, b, p) THEN 1 ELSE 0)) % Base

Add(a, b) == Norm([p \in 1..(Max2(Len(a), Len(b)) + 1) |-> AddLimb(a, b, p)])

\* x * Base^s
Shift(x, s) == SubSeq([p \in 1..(Len(x) + s) |-> Limb(x, p - s)], 1, Len(x) + s)

\* the low limbs of the products b[p] * d, and their high limbs one place up
LowLimbs(b, d) == SubSeq([p \in 1..Len(b) |-> (b[p] * d) % Base], 1, Len(b))
HighLimbs(b, d) ==
    SubSeq([p \in 1..(Len(b) + 1) |-> (Limb(b, p - 1) * d) \div Base], 1, Len(b) + 1)

\* b * d for one limb d
MulSmall(b, d) == Add(LowLimbs(b, d), HighLimbs(b, d))

\* acc + a[p..] * b * Base^(p-1), limb by limb of a (Len(acc) >= 0 has acc
\* worked out before the next limb is taken)
RECURSIVE MulFrom(_, _, _, _)
MulFrom(a, b, p, acc) ==
    IF p > Len(a) \/ Len(acc) < 0 THEN acc
    ELSE MulFrom(a, b, p + 1, Add(acc, Shift(MulSmall(b, a[p]), p - 1)))

Mul(a, b) ==
    IF Len(a) <= Len(b) THEN MulFrom(a, b, 1, <<>>) ELSE MulFrom(b, a, 1, <<>>)

Less(a, b) ==
    \/ Len(a) < Len(b)
    \/ /\ Len(a) = Len(b)
       /\ \E p \in 1..Len(a) :
              /\ a[p] < b[p]
              /\ \A q \in (p + 1)..Len(a) : a[q] = b[q]

Leq(a, b) == ~Less(b, a)
MaxN(a, b) == IF Less(a, b) THEN b ELSE a

Square(x) == Mul(x, x)

\* acc * base^exp by repeated squaring, as pow computes it
RECURSIVE PowLoop(_, _, _)
PowLoop(base, exp, acc) ==
    IF exp = 0 THEN acc
    ELSE IF exp = 1 \/ Len(base) + Len(acc) = 0 THEN Mul(acc, base)
    ELSE PowLoop(Square(base), exp \div 2,
                 IF exp % 2 = 1 THEN Mul(acc, base) ELSE acc)

PowN(b, e) == PowLoop(b, e, FromNat(1))

\* acc * x * (x + 1) * ... * n, folded upwards
RECURSIVE FactFrom(_, _, _)
FactFrom(x, n, acc) ==
    IF x > n \/ acc = <<>> THEN acc ELSE FactFrom(x + 1, n, Mul(acc, FromNat(x)))

FactN(n) == FactFrom(2, n, FromNat(1))

\* u64::MAX
MaxU64 == [p \in 1..U64Limbs |-> Base - 1]
\* the exact value does not fit 64 bits
Overflows(x) == Len(x) > U64Limbs
\* the value a wrapping (release build) operation leaves: x mod 2^64
Wrap(x) == Norm(SubSeq(x, 1, Min2(Len(x), U64Limbs)))
\* the value a saturating operation would leave
Sat(x) == IF Overflows(x) THEN MaxU64 ELSE x

Lowest(S) == CHOOSE p \in S : \A q \in S : p <= q

\* limb p of x - 1, the borrow running up to the lowest non-zero limb z
PredLimb(x, p, z) ==
    IF p < z THEN Base - 1 ELSE IF p = z THEN x[p] - 1 ELSE x[p]

\* x - 1 for x > 0
Pred(x) ==
    Norm([p \in 1..Len(x) |->
              PredLimb(x, p, Lowest({q \in 1..Len(x) : x[q] # 0}))])

\* long division of the limbs p, p - 1, .. 1 of x by d, rem carried down
RECURSIVE DivFrom(_, _, _, _, _)
DivFrom(x, d, p, rem, acc) ==
    IF p = 0 \/ Len(acc) < 0 THEN acc
    ELSE DivFrom(x, d, p - 1, (rem * Base + x[p]) % d,
                 <<(rem * Base + x[p]) \div d>> \o acc)

\* x / d rounded down, for a divisor d that fits a machine integer
DivSmall(x, d) == Norm(DivFrom(x, d, Len(x), 0, <<>>))


-----------------------------------------------------------------------------
(* Constants of scoring.rs *)

REFERENCE_YEAR == 2000
MIN_YEAR_SPACE == 20
BRUTEFORCE_CARDINALITY == 10
MIN_GUESSES_BEFORE_GROWING_SEQUENCE == 10000
MIN_SUBMATCH_GUESSES_SINGLE_CHAR == 10
MIN_SUBMATCH_GUESSES_MULTI_CHAR == 50

-----------------------------------------------------------------------------
(* Matches *)

Digits == <<"0", "1", "2", "3", "4", "5", "6", "7", "8", "9">>

\* the password "0123456789012..." of length n
Password(n) == [p \in 1..n |-> Digits[((p - 1) % 10) + 1]]

\* password[i..(j + 1)]
Slice(pw, i, j) == SubSeq(pw, i + 1, j + 1)

\* a match found by the matcher, its guesses already cached
CachedMatch(pw, i, j, g) ==
    [pattern |-> "dictionary", token |-> Slice(pw, i, j), i |-> i, j |-> j,
     guesses |-> Some(FromNat(g))]

make_bruteforce_match(i, j, pw) ==
    [pattern |-> "bruteforce", token |-> Slice(pw, i, j), i |-> i, j |-> j,
     guesses |-> None]

\* one arithmetic operation: the exact result and what a wrapping u64 holds
Op(x) == [exact |-> x, got |-> Wrap(x)]

\* lines 240-245: cmp::max(guesses, min_guesses)
BruteForceFloor(m, guesses) ==
    [op |-> guesses,
     val |-> MaxN(guesses.got,
                  FromNat(IF Len(m.token) = 1
                          THEN MIN_SUBMATCH_GUESSES_SINGLE_CHAR + 1
                          ELSE MIN_SUBMATCH_GUESSES_MULTI_CHAR + 1))]

\* BruteForceEstimator::estimate; .op is the power, .val what is returned
BruteForceEstimator_estimate(m) ==
    BruteForceFloor(m, Op(PowN(FromNat(BRUTEFORCE_CARDINALITY), Len(m.token))))

\* factorial: (2..(n + 1)).fold(1, |acc, x| acc * x) in usize
factorial(n) == IF n < 2 THEN Op(FromNat(1)) ELSE Op(FactN(n))

\* lines 203-211: the least guesses of a match shorter than the password
MinGuesses(m, pw) ==
    IF Len(m.token) < Len(pw)
    THEN IF Len(m.token) = 1
         THEN MIN_SUBMATCH_GUESSES_SINGLE_CHAR
         ELSE MIN_SUBMATCH_GUESSES_MULTI_CHAR
    ELSE 1

\* lines 213-214: m.guesses = Some(cmp::max(guesses, min_guesses))
Cache(m, v, ops) == [m |-> [m EXCEPT !.guesses = Some(v)], val |-> v, ops |-> ops]

\* lines 212-213 for the estimator's answer e
Clamp(m, e, min_guesses) == Cache(m, MaxN(e.val, FromNat(min_guesses)), <<e.op>>)

\* estimate_guesses: the cached guesses, or the estimator's clamped below
\* (the matches built here are bruteforce matches)
estimate_guesses(m, pw) ==
    IF m.guesses # None
    THEN [m |-> m, val |-> Unwrap(m.guesses), ops |-> <<>>]
    ELSE Clamp(m, BruteForceEstimator_estimate(m), MinGuesses(m, pw))

-----------------------------------------------------------------------------
(* The tables and update *)

EmptyMap == <<>>

\* map with key l set to v (HashMap entry(l).or_insert(..) = v)
Insert(f, l, v) ==
    [x \in (DOMAIN f) \cup {l} |-> IF x = l THEN v ELSE f[x]]

EmptyOptimal(n) ==
    [m  |-> [kk \in 0..(n - 1) |-> EmptyMap],
     pi |-> [kk \in 0..(n - 1) |-> EmptyMap],
     g  |-> [kk \in 0..(n - 1) |-> EmptyMap]]

\* a competing sequence with l or fewer matches fares no worse than g
Competing(gk, l, g) ==
    \E competing_l \in DOMAIN gk :
        /\ ~(competing_l > l)
        /\ Leq(gk[competing_l], g)

\* lines 81-95: keep the tables if a competing sequence fares no worse,
\* else store (m, pi, g) under l at k = m.j
Store(m, l, pi, g, opt) ==
    IF Competing(opt.g[m.j], l, g) THEN opt
    ELSE [m  |-> [opt.m  EXCEPT ![m.j] = Insert(@, l, m)],
          pi |-> [opt.pi EXCEPT ![m.j] = Insert(@, l, pi)],
          g  |-> [opt.g  EXCEPT ![m.j] = Insert(@, l, g)]]

\* line 79: g += MIN_GUESSES_BEFORE_GROWING_SEQUENCE.pow((l - 1) as u32)
MetricAdd(f, prod, pen) == <<f, prod, pen, Op(Add(prod.got, pen.got))>>

\* lines 78-80: the additive term, unless excluded
MetricPenalty(f, prod, l, excl) ==
    IF excl THEN <<f, prod>>
    ELSE MetricAdd(f, prod,
                   Op(PowN(FromNat(MIN_GUESSES_BEFORE_GROWING_SEQUENCE), l - 1)))

\* line 77: g = factorial(l) as u64 * pi
MetricProduct(f, pi, l, excl) == MetricPenalty(f, Op(Mul(f.got, pi)), l, excl)

\* lines 77-80: the operations that compute the metric g; the last one is g
Metric(pi, l, excl) == MetricProduct(factorial(l), pi, l, excl)

\* the outcome of update once its arithmetic (steps) is known: a panic of
\* an overflow-checked build, or the tables after lines 81-95
Outcome(m, l, pi, steps, opt, checks) ==
    IF checks /\ \E s \in 1..Len(steps) : steps[s].exact # steps[s].got
    THEN [abort |-> TRUE, optimal |-> opt, calc |-> steps]
    ELSE [abort |-> FALSE,
          optimal |-> Store(m, l, pi, steps[Len(steps)].got, opt),
          calc |-> steps]

\* lines 76-80 for the product pi
WithProduct(e, l, pi, opt, excl, checks) ==
    Outcome(e.m, l, pi.got, e.ops \o <<pi>> \o Metric(pi.got, l, excl), opt, checks)

\* lines 70-75: pi *= optimal.pi[m.i - 1][&(l - 1)], a panic without that entry
WithEstimate(e, l, opt, excl, checks) ==
    IF l > 1 /\ (e.m.i = 0 \/ (l - 1) \notin DOMAIN opt.pi[e.m.i - 1])
    THEN [abort |-> TRUE, optimal |-> opt, calc |-> e.ops]
    ELSE WithProduct(e, l,
                     IF l > 1 THEN Op(Mul(e.val, opt.pi[e.m.i - 1][l - 1]))
                     ELSE Op(e.val),
                     opt, excl, checks)

\* update(m, l, password, optimal, exclude_additive):
\* .abort: the call panics; .optimal: the tables it leaves;
\* .calc: its arithmetic, each operation's exact result and what it left
update(m, l, pw, opt, excl, checks) ==
    WithEstimate(estimate_guesses(m, pw), l, opt, excl, checks)

-----------------------------------------------------------------------------
(* most_guessable_match_sequence *)

n == Len(password)

\* lst.sort_by_key(|m| m.i): a stable insertion sort
RECURSIVE InsertByI(_, _)
InsertByI(sorted, m) ==
    IF sorted = <<>> THEN <<m>>
    ELSE IF sorted[Len(sorted)].i <= m.i THEN Append(sorted, m)
    ELSE Append(InsertByI(SubSeq(sorted, 1, Len(sorted) - 1), m),
                sorted[Len(sorted)])

RECURSIVE SortByI(_)
SortByI(lst) ==
    IF lst = <<>> THEN <<>>
    ELSE InsertByI(SortByI(SubSeq(lst, 1, Len(lst) - 1)), lst[Len(lst)])

\* matches_by_j[kk]: the matches ending at kk, in the order given
EndingAt(ms, kk) == SelectSeq(ms, LAMBDA m : m.j = kk)

\* the call has not started: nothing computed yet
Fresh ==
    /\ matches_by_j = <<>>
    /\ optimal = EmptyOptimal(0)
    /\ pc = "start"
    /\ k = 0 /\ mi = 1 /\ bi = 1
    /\ pending = {}
    /\ uk = 0 /\ ul = None /\ ug = None
    /\ seq = <<>>
    /\ result = None
    /\ calc = <<>>

InputUnchanged ==
    UNCHANGED <<password, matches, exclude_additive, overflow_checks, dm, dres,
                nck>>

\* lines 43-59: partition the matches by j, sort each sublist, empty tables
Partition ==
    /\ pc = "start"
    /\ IF \E x \in 1..Len(matches) : matches[x].j >= n
       THEN /\ pc' = "panicked"
            /\ UNCHANGED <<matches_by_j, optimal>>
       ELSE /\ matches_by_j' = [kk \in 0..(n - 1) |-> SortByI(EndingAt(matches, kk))]
            /\ optimal' = EmptyOptimal(n)
            /\ pc' = IF n = 0 THEN "unwind" ELSE "loop"
    /\ UNCHANGED <<k, mi, bi, pending, uk, ul, ug, seq, result, prev, calc>>
    /\ InputUnchanged

\* the tables, the arithmetic and the position an outcome of update leaves
Effect(r, next_pc) ==
    /\ optimal' = r.optimal
    /\ calc' = r.calc
    /\ pc' = IF r.abort THEN "panicked" ELSE next_pc

\* the effect of one call of update on the tables, or its panic
Call(m, l, next_pc) ==
    Effect(update(m, l, password, optimal, exclude_additive, overflow_checks),
           next_pc)

\* line 168: a match starting at 0 is tried as a sequence of length 1
MatchSingle ==
    /\ pc = "loop"
    /\ mi <= Len(matches_by_j[k])
    /\ matches_by_j[k][mi].i = 0
    /\ Call(matches_by_j[k][mi], 1, "loop")
    /\ mi' = mi + 1
    /\ UNCHANGED <<matches_by_j, k, bi, pending, uk, ul, ug, seq, result, prev>>
    /\ InputUnchanged

\* line 163: collect the keys of optimal.m[m.i - 1]
MatchKeys ==
    /\ pc = "loop"
    /\ mi <= Len(matches_by_j[k])
    /\ matches_by_j[k][mi].i > 0
    /\ pending' = DOMAIN optimal.m[matches_by_j[k][mi].i - 1]
    /\ pc' = "keys"
    /\ UNCHANGED <<matches_by_j, optimal, k, mi, bi, uk, ul, ug, seq, result, prev, calc>>
    /\ InputUnchanged

\* lines 164-166: the next key, in the order the HashMap yields them
MatchExtend ==
    /\ pc = "keys"
    /\ \E l \in pending :
        /\ Call(matches_by_j[k][mi], l + 1, "keys")
        /\ pending' = pending \ {l}
    /\ UNCHANGED <<matches_by_j, k, mi, bi, uk, ul, ug, seq, result, prev>>
    /\ InputUnchanged

\* line 161: the keys are exhausted, on to the next match ending at k
MatchNext ==
    /\ pc = "keys"
    /\ pending = {}
    /\ mi' = mi + 1
    /\ pc' = "loop"
    /\ UNCHANGED <<matches_by_j, optimal, k, bi, pending, uk, ul, ug, seq, result, prev, calc>>
    /\ InputUnchanged

\* line 113 left out: a bruteforce match is appended to any sequence
SkipsBruteforce_never(last_m) == FALSE

\* line 113: the sequence already ends in a bruteforce match
SkipsBruteforce(last_m) == last_m.pattern = "bruteforce"

\* lines 101-102: a single bruteforce match spanning the k-prefix
BruteforceFirst ==
    /\ pc = "loop"
    /\ mi > Len(matches_by_j[k])
    /\ Call(make_bruteforce_match(0, k, password), 1, "bf")
    /\ bi' = 1
    /\ UNCHANGED <<matches_by_j, k, mi, pending, uk, ul, ug, seq, result, prev>>
    /\ InputUnchanged

\* line 108: clone optimal.m[i - 1] to iterate over it
BruteforceClone ==
    /\ pc = "bf"
    /\ bi <= k
    /\ pending' = DOMAIN optimal.m[bi - 1]
    /\ pc' = "bfkeys"
    /\ UNCHANGED <<matches_by_j, optimal, k, mi, bi, uk, ul, ug, seq, result, prev, calc>>
    /\ InputUnchanged

\* lines 108-118: the next (l, last_m), in the order the HashMap yields them
BruteforceExtend ==
    /\ pc = "bfkeys"
    /\ \E l \in pending :
        /\ IF SkipsBruteforce(optimal.m[bi - 1][l])
           THEN UNCHANGED <<optimal, calc, pc>>
           ELSE Call(make_bruteforce_match(bi, k, password), l + 1, "bfkeys")
        /\ pending' = pending \ {l}
    /\ UNCHANGED <<matches_by_j, k, mi, bi, uk, ul, ug, seq, result, prev>>
    /\ InputUnchanged

\* line 103: the entries are exhausted, on to the next i
BruteforceNext ==
    /\ pc = "bfkeys"
    /\ pending = {}
    /\ bi' = bi + 1
    /\ pc' = "bf"
    /\ UNCHANGED <<matches_by_j, optimal, k, mi, pending, uk, ul, ug, seq, result, prev, calc>>
    /\ InputUnchanged

\* lines 160, 171-172: bruteforce_update returns, on to the next k
BruteforceReturn ==
    /\ pc = "bf"
    /\ bi > k
    /\ k' = k + 1
    /\ mi' = 1
    /\ pc' = IF k + 1 < n THEN "loop" ELSE "unwind"
    /\ UNCHANGED <<matches_by_j, optimal, bi, pending, uk, ul, ug, seq, result, prev, calc>>
    /\ InputUnchanged


-----------------------------------------------------------------------------
(* unwind and the return *)

\* optimal_match_sequence.push(m) in place of insert(0, m)
InsertBack(sequence, m) == Append(sequence, m)

\* line 150: optimal_match_sequence.insert(0, m)
InsertFront(sequence, m) == <<m>> \o sequence

\* lines 136-140: k = n - 1, which panics for the empty password (the
\* subtraction overflows, or wraps and optimal.g[k] is out of bounds)
UnwindStart ==
    /\ pc = "unwind"
    /\ IF n = 0
       THEN /\ pc' = "panicked"
            /\ UNCHANGED <<uk, ul, ug, seq, pending>>
       ELSE /\ uk' = n - 1
            /\ ul' = None
            /\ ug' = None
            /\ seq' = <<>>
            /\ pending' = DOMAIN optimal.g[n - 1]
            /\ pc' = "scan"
    /\ UNCHANGED <<matches_by_j, optimal, k, mi, bi, result, prev, calc>>
    /\ InputUnchanged

\* lines 141-146: the next (candidate_l, candidate_g), in the HashMap's order
UnwindScan ==
    /\ pc = "scan"
    /\ \E candidate_l \in pending :
        LET candidate_g == optimal.g[uk][candidate_l]
        IN  /\ IF ug = None \/ Less(candidate_g, Unwrap(ug))
               THEN /\ ul' = Some(candidate_l)
                    /\ ug' = Some(candidate_g)
               ELSE UNCHANGED <<ul, ug>>
            /\ pending' = pending \ {candidate_l}
    /\ UNCHANGED <<matches_by_j, optimal, pc, k, mi, bi, uk, seq, result, prev, calc>>
    /\ InputUnchanged

\* lines 148-156: one turn of the loop that walks back through optimal.m
UnwindWalk ==
    /\ \/ pc = "scan" /\ pending = {}
       \/ pc = "walk"
    /\ IF ul = None \/ Unwrap(ul) \notin DOMAIN optimal.m[uk]
       THEN /\ pc' = "panicked"
            /\ UNCHANGED <<uk, ul, seq>>
       ELSE LET m == optimal.m[uk][Unwrap(ul)]
            IN  /\ seq' = InsertFront(seq, m)
                /\ IF m.i = 0
                   THEN /\ pc' = "return"
                        /\ UNCHANGED <<uk, ul>>
                   ELSE /\ uk' = m.i - 1
                        /\ ul' = Some(Unwrap(ul) - 1)
                        /\ pc' = "walk"
    /\ UNCHANGED <<matches_by_j, optimal, k, mi, bi, pending, ug, result, prev, calc>>
    /\ InputUnchanged

\* (guesses as f64).log10() as u16: the number of decimal digits less one
\* (pow is 10^(e + 1); a u64 has at most 20 digits)
RECURSIVE Log10From(_, _, _)
Log10From(g, e, pow) ==
    IF e >= 19 \/ Less(g, pow) THEN e
    ELSE Log10From(g, e + 1, MulSmall(pow, 10))

Log10(g) == IF g = <<>> THEN 0 ELSE Log10From(g, 0, FromNat(10))

\* lines 174-187: the guesses of the sequence found, and the result
Return ==
    /\ pc = "return"
    /\ LET optimal_l == Len(seq)
       IN  IF n > 0 /\ optimal_l \notin DOMAIN optimal.g[n - 1]
           THEN /\ pc' = "panicked"
                /\ UNCHANGED result
           ELSE LET guesses == IF n = 0 THEN FromNat(1)
                               ELSE optimal.g[n - 1][optimal_l]
                IN  /\ result' = Some([guesses |-> guesses,
                                       guesses_log10 |-> Log10(guesses),
                                       sequence |-> seq])
                    /\ pc' = "done"
    /\ UNCHANGED <<matches_by_j, optimal, k, mi, bi, pending, uk, ul, ug, seq, prev, calc>>
    /\ InputUnchanged

\* the caller runs the search again on the same input
Rerun ==
    /\ pc = "done"
    /\ prev' = result
    /\ matches_by_j' = <<>>
    /\ optimal' = EmptyOptimal(0)
    /\ pc' = "start"
    /\ k' = 0 /\ mi' = 1 /\ bi' = 1
    /\ pending' = {}
    /\ uk' = 0 /\ ul' = None /\ ug' = None
    /\ seq' = <<>>
    /\ result' = None
    /\ calc' = <<>>
    /\ InputUnchanged

-----------------------------------------------------------------------------
(* DateEstimator *)

I16Min == -(2^(I16Bits - 1))
I16Max == 2^(I16Bits - 1) - 1
InI16(x) == I16Min <= x /\ x <= I16Max
\* the i16 a wrapping operation leaves
WrapI16(x) == ((x - I16Min) % 2^I16Bits) + I16Min
Abs(x) == IF x < 0 THEN -x ELSE x

\* (x as u64) of an i16: sign extension
I16AsU64(x) ==
    IF x >= 0 THEN FromNat(x)
    ELSE LET low == x + 2^I16Bits
         IN  [p \in 1..U64Limbs |->
                 IF p = 1 THEN low % Base
                 ELSE IF p = 2 THEN low \div Base ELSE Base - 1]

\* DateEstimator::estimate: .abort (an overflow panicked) or .guesses
DateEstimator_estimate(m, checks) ==
    LET diff == m.year - REFERENCE_YEAR
        year_space == Max2(WrapI16(Abs(WrapI16(diff))), MIN_YEAR_SPACE)
        days == year_space * 365
        guesses == IF m.separator THEN WrapI16(days) * 4 ELSE WrapI16(days)
        overflow == ~InI16(diff) \/ ~InI16(Abs(WrapI16(diff))) \/ ~InI16(days)
                        \/ ~InI16(guesses)
    IN  IF checks /\ overflow
        THEN [abort |-> TRUE, guesses |-> <<>>]
        ELSE [abort |-> FALSE, guesses |-> I16AsU64(WrapI16(guesses))]

\* the estimator is applied to the date match
DateEstimate ==
    /\ pc = "date"
    /\ dres' = Some(DateEstimator_estimate(dm, overflow_checks))
    /\ pc' = "estimated"
    /\ UNCHANGED <<password, matches, exclude_additive, overflow_checks, dm,
                   matches_by_j, optimal, k, mi, bi, pending, uk, ul, ug, seq,
                   result, prev, calc, nck>>

-----------------------------------------------------------------------------
(* n_ck *)

\* no call of n_ck asked for
NckIdle == [args |-> <<>>, outs |-> <<>>, frame |-> None]

\* line 317: r.checked_mul(n), None when the product leaves usize
Fitting(x) == IF Overflows(x) THEN None ELSE Some(x)
checked_mul(r, m) == Fitting(Mul(r, m))

\* (r / d) * n in place of (r * n) / d
NckMultiplied(f, res) ==
    IF res = None THEN None
    ELSE Some([f EXCEPT !.r = Unwrap(res),
                        !.n = Pred(f.n),
                        !.d = f.d + 1])

NckIteration_divides_first(f) ==
    NckMultiplied(f, checked_mul(DivSmall(f.r, f.d), f.n))

\* lines 317-324: one iteration on the frame f, None when line 320 returns
NckDivided(f, res) ==
    IF res = None THEN None
    ELSE Some([f EXCEPT !.r = DivSmall(Unwrap(res), f.d),
                        !.n = Pred(f.n),
                        !.d = f.d + 1])

NckIteration(f) == NckDivided(f, checked_mul(f.r, f.n))

\* the call at the head of nck.args returns value
NckReturns(value, overflowed) ==
    /\ nck' = [args |-> Tail(nck.args),
               outs |-> Append(nck.outs, [n |-> Head(nck.args).n,
                                          k |-> Head(nck.args).k,
                                          value |-> value,
                                          overflowed |-> overflowed]),
               frame |-> None]
    /\ pc' = IF Tail(nck.args) = <<>> THEN "n_ck_done" ELSE "n_ck"

\* line 320 returns u64::MAX, or the loop goes on with the frame next
NckIterated(next) ==
    IF next = None
    THEN NckReturns(Norm(MaxU64), TRUE)
    ELSE /\ nck' = [nck EXCEPT !.frame = next]
         /\ UNCHANGED pc

NckUnchanged ==
    UNCHANGED <<password, matches, exclude_additive, overflow_checks,
                matches_by_j, optimal, k, mi, bi, pending, uk, ul, ug, seq,
                result, prev, calc, dm, dres>>

\* lines 309-316: the two corners, else the range 1..(k + 1) and r = 1
NckCall ==
    /\ pc = "n_ck"
    /\ nck.frame = None
    /\ nck.args # <<>>
    /\ IF Less(Head(nck.args).n, Head(nck.args).k)
       THEN NckReturns(<<>>, FALSE)
       ELSE IF Head(nck.args).k = <<>>
       THEN NckReturns(FromNat(1), FALSE)
       ELSE IF overflow_checks
               /\ Overflows(Op(Add(Head(nck.args).k, FromNat(1))).exact)
       THEN /\ pc' = "n_ck_panic"
            /\ UNCHANGED nck
       ELSE /\ nck' = [nck EXCEPT !.frame =
                          Some([r |-> FromNat(1),
                                n |-> Head(nck.args).n,
                                d |-> 1,
                                end |-> Op(Add(Head(nck.args).k,
                                               FromNat(1))).got])]
            /\ UNCHANGED pc
    /\ NckUnchanged

\* lines 316-325: one iteration of for d in 1..(k + 1)
NckIterate ==
    /\ pc = "n_ck"
    /\ nck.frame # None
    /\ Less(FromNat(Unwrap(nck.frame).d), Unwrap(nck.frame).end)
    /\ NckIterated(NckIteration(Unwrap(nck.frame)))
    /\ NckUnchanged

\* lines 326-327: the range is exhausted, r as u64 is returned
NckReturn ==
    /\ pc = "n_ck"
    /\ nck.frame # None
    /\ ~Less(FromNat(Unwrap(nck.frame).d), Unwrap(nck.frame).end)
    /\ NckReturns(Unwrap(nck.frame).r, FALSE)
    /\ NckUnchanged

-----------------------------------------------------------------------------
(* Inputs and specifications *)

\* cached guesses of the general and of the covering inputs
GuessValues == {1, 5}
CoverGuessValues == {1, 5, 500}

Spans(len) == {s \in (0..(len - 1)) \X (0..(len - 1)) : s[1] <= s[2]}

Candidates(pw) ==
    {CachedMatch(pw, s[1], s[2], g) : s \in Spans(Len(pw)), g \in GuessValues}

Lists(C, most) == UNION {[1..q -> C] : q \in 0..most}

Input(pw, ms) == [password |-> pw, matches |-> ms]

\* any password up to MaxLen with up to MaxMatches valid matches
GeneralInputs ==
    UNION {{Input(Password(len), ms) :
                ms \in Lists(Candidates(Password(len)), MaxMatches)} :
           len \in 0..MaxLen}

\* m0 spans the password, m1 and m2 partition it
CoverInputs ==
    UNION {{Input(Password(len),
                  <<CachedMatch(Password(len), 0, len - 1, g[1]),
                    CachedMatch(Password(len), 0, a - 1, g[2]),
                    CachedMatch(Password(len), a, len - 1, g[3])>>) :
                a \in 1..(len - 1),
                g \in CoverGuessValues \X CoverGuessValues \X CoverGuessValues} :
           len \in 2..MaxLen}

\* a long password with a cheap first character and a costly tail
LongCandidates(pw) ==
    {CachedMatch(pw, 0, 0, 2), CachedMatch(pw, 4, Len(pw) - 1, 20000)}

LongInputs ==
    {Input(Password(LongLen), ms) :
        ms \in Lists(LongCandidates(Password(LongLen)), 2)}

\* a password so long that its bruteforce estimate leaves 64 bits, alone or
\* with a match of guesses 1 on its first character, on its second, or on
\* its first two
HugeCandidates(pw) ==
    {CachedMatch(pw, 0, 0, 1), CachedMatch(pw, 1, 1, 1), CachedMatch(pw, 0, 1, 1)}

HugeInputs ==
    {Input(Password(HugeLen), ms) :
        ms \in Lists(HugeCandidates(Password(HugeLen)), 1)}

InitSearch(inputs, profiles) ==
    /\ \E inp \in inputs :
        /\ password = inp.password
        /\ matches = inp.matches
    /\ exclude_additive \in BOOLEAN
    /\ overflow_checks \in profiles
    /\ Fresh
    /\ prev = None
    /\ dm = [year |-> REFERENCE_YEAR, separator |-> FALSE]
    /\ dres = None
    /\ nck = NckIdle

\* the general inputs under the overflow-checked build (that of cargo test):
\* a call that does not panic overflowed nowhere, so the wrapping build
\* computes the same
Init == InitSearch(GeneralInputs \cup CoverInputs, {TRUE})

InitLong == InitSearch(LongInputs, BOOLEAN)

InitHuge == InitSearch(LongInputs \cup HugeInputs, BOOLEAN)

InitDate ==
    /\ password = <<>>
    /\ matches = <<>>
    /\ exclude_additive = FALSE
    /\ overflow_checks \in BOOLEAN
    /\ matches_by_j = <<>>
    /\ optimal = EmptyOptimal(0)
    /\ pc = "date"
    /\ k = 0 /\ mi = 1 /\ bi = 1
    /\ pending = {}
    /\ uk = 0 /\ ul = None /\ ug = None
    /\ seq = <<>>
    /\ result = None
    /\ prev = None
    /\ calc = <<>>
    /\ dm \in [year : YearMin..YearMax, separator : BOOLEAN]
    /\ dres = None
    /\ nck = NckIdle

\* arguments of n_ck: the small ones and the two largest of usize
NckValues(most) == {FromNat(v) : v \in 0..most} \cup {Norm(MaxU64), Pred(MaxU64)}

\* lines 500-505: n_ck(n, k), n_ck(n - 1, k - 1), n_ck(n - 1, k) when
\* neither n nor k is 0, else the one call n_ck(n, k)
NckCalls(a, b) ==
    IF a = <<>> \/ b = <<>> THEN <<[n |-> a, k |-> b]>>
    ELSE <<[n |-> a, k |-> b],
           [n |-> Pred(a), k |-> Pred(b)],
           [n |-> Pred(a), k |-> b]>>

InitNck ==
    /\ password = <<>>
    /\ matches = <<>>
    /\ exclude_additive = FALSE
    /\ overflow_checks \in BOOLEAN
    /\ matches_by_j = <<>>
    /\ optimal = EmptyOptimal(0)
    /\ pc = "n_ck"
    /\ k = 0 /\ mi = 1 /\ bi = 1
    /\ pending = {}
    /\ uk = 0 /\ ul = None /\ ug = None
    /\ seq = <<>>
    /\ result = None
    /\ prev = None
    /\ calc = <<>>
    /\ dm = [year |-> REFERENCE_YEAR, separator |-> FALSE]
    /\ dres = None
    /\ \E a \in NckValues(NckMaxN), b \in NckValues(NckMaxK) :
           nck = [args |-> NckCalls(a, b), outs |-> <<>>, frame |-> None]

Next ==
    \/ Partition
    \/ MatchSingle
    \/ MatchKeys
    \/ MatchExtend
    \/ MatchNext
    \/ BruteforceFirst
    \/ BruteforceClone
    \/ BruteforceExtend
    \/ BruteforceNext
    \/ BruteforceReturn
    \/ UnwindStart
    \/ UnwindScan
    \/ UnwindWalk
    \/ Return

NextRerun ==
    \/ Next
    \/ Rerun

NextDate == DateEstimate

NextNck ==
    \/ NckCall
    \/ NckIterate
    \/ NckReturn

\* one call on each general input
Spec == Init /\ [][Next]_vars

\* the general inputs, the call repeated on the same input
SpecRerun == Init /\ [][NextRerun]_vars

\* one call on each long input
SpecLong == InitLong /\ [][Next]_vars

\* one call on each long and each huge input
SpecHuge == InitHuge /\ [][Next]_vars

\* the date estimator applied once to each date
SpecDate == InitDate /\ [][NextDate]_vars

\* n_ck called on each pair of arguments, with the calls of Pascal's rule
SpecNck == InitNck /\ [][NextNck]_vars

-----------------------------------------------------------------------------
(* What the claims speak of *)

Returned == pc = "done"
Sequence == Unwrap(result).sequence
Guesses == Unwrap(result).guesses

\* the guesses of a bruteforce filler of len characters: max(10^len, 11 or 51)
FillerGuesses(len) ==
    MaxN(PowN(FromNat(10), len), FromNat(IF len = 1 THEN 11 ELSE 51))

\* everything a cover may be built from: the candidate matches and a
\* bruteforce filler for every span
Filler(i, j) ==
    [pattern |-> "bruteforce", token |-> Slice(password, i, j), i |-> i, j |-> j,
     guesses |-> Some(FillerGuesses(j - i + 1))]

Pieces ==
    {matches[x] : x \in 1..Len(matches)} \cup {Filler(s[1], s[2]) : s \in Spans(n)}

\* all exact covers of password[pos..]
RECURSIVE CoversFrom(_)
CoversFrom(pos) ==
    IF pos = n THEN {<<>>}
    ELSE UNION {{<<c>> \o rest : rest \in CoversFrom(c.j + 1)} :
                c \in {c \in Pieces : c.i = pos}}

RECURSIVE Product(_)
Product(cover) ==
    IF cover = <<>> THEN FromNat(1)
    ELSE Mul(Unwrap(Head(cover).guesses), Product(Tail(cover)))

\* L! * product(guesses) (+ 10000^(L-1))
Cost(cover, excl) ==
    IF excl THEN Mul(FactN(Len(cover)), Product(cover))
    ELSE Add(Mul(FactN(Len(cover)), Product(cover)),
             PowN(FromNat(10000), Len(cover) - 1))

\* the least of a non-empty set of numbers
Least(S) == CHOOSE x \in S : \A y \in S : Leq(x, y)

\* the least cost over all exact covers, each cover enumerated
MinCostEnumerated(excl) == Least({Cost(c, excl) : c \in CoversFrom(0)})

\* The same least cost without enumerating the covers. L! and 10000^(L-1)
\* depend on L alone, so the least cost is the least over L of
\* L! * P(L) (+ 10000^(L-1)), where P(L) is the least product of guesses over
\* the covers of L pieces. table[p + 1][L] is the least product over the covers
\* of password[0..p] of L pieces.
\* the guesses of the pieces that span i..kk: the filler and the candidates
Spanning(i, kk) ==
    {FillerGuesses(kk - i + 1)}
        \cup {Unwrap(matches[x].guesses) :
                 x \in {x \in 1..Len(matches) :
                            matches[x].i = i /\ matches[x].j = kk}}

\* the products of the covers of password[0..kk] of L pieces whose last piece
\* spans i..kk
Extended(i, kk, L, table) ==
    IF i = 0
    THEN IF L = 1 THEN Spanning(i, kk) ELSE {}
    ELSE IF L >= 2 /\ L - 1 <= Len(table[i])
         THEN {Mul(g, table[i][L - 1]) : g \in Spanning(i, kk)}
         ELSE {}

LeastProduct(kk, L, table) ==
    Least(UNION {Extended(i, kk, L, table) : i \in 0..kk})

\* the row of password[0..kk]: a cover of it has 1 to kk + 1 pieces
Row(kk, table) ==
    SubSeq([L \in 1..(kk + 1) |-> LeastProduct(kk, L, table)], 1, kk + 1)

\* the table completed row by row, table[p + 1] the row of password[0..p]
RECURSIVE TableFrom(_)
TableFrom(table) ==
    IF Len(table) = n THEN table
    ELSE TableFrom(Append(table, Row(Len(table), table)))

CostOf(L, product, excl) ==
    IF excl THEN Mul(FactN(L), product)
    ELSE Add(Mul(FactN(L), product), PowN(FromNat(10000), L - 1))

LeastCost(row, excl) == Least({CostOf(L, row[L], excl) : L \in 1..Len(row)})

MinCost(excl) == LeastCost(TableFrom(<<>>)[n], excl)

\* the two ways of computing the least cost agree
MinCostAgrees ==
    (Returned /\ n > 0) =>
        \A excl \in BOOLEAN : MinCost(excl) = MinCostEnumerated(excl)

IsExactCover(cover, len) ==
    /\ Len(cover) >= 1
    /\ cover[1].i = 0
    /\ cover[Len(cover)].j = len - 1
    /\ \A x \in 1..(Len(cover) - 1) : cover[x].j + 1 = cover[x + 1].i

-----------------------------------------------------------------------------
(* C1 *)

\* C1: for a non-empty password the sequence returned is an exact contiguous
\* cover: it starts at 0, ends at n-1, and each match starts right after the
\* one before it.
C1_ExactCover == (Returned /\ n > 0) => IsExactCover(Sequence, n)

\* a call with a candidate match returned a sequence of several matches
C1_Witness == Returned /\ matches # <<>> /\ Len(Sequence) >= 2

-----------------------------------------------------------------------------
(* C2 *)

\* C2: with exclude_additive = false the guesses returned for a non-empty
\* password are the least cost L! * product(guesses) + 10000^(L-1) over all
\* exact covers built from the candidate matches and bruteforce fillers.
C2_MinimalWithAdditive ==
    (Returned /\ n > 0 /\ ~exclude_additive) => Guesses = MinCost(FALSE)

-----------------------------------------------------------------------------
(* C3 *)

\* m0 spans the whole password and m1, m2 partition it
IsCoverInput ==
    /\ Len(matches) = 3
    /\ matches[1].i = 0 /\ matches[1].j = n - 1
    /\ matches[2].i = 0
    /\ matches[2].j + 1 = matches[3].i
    /\ matches[3].j = n - 1

G0 == Unwrap(matches[1].guesses)
TwiceG1G2 ==
    Mul(FromNat(2), Mul(Unwrap(matches[2].guesses), Unwrap(matches[3].guesses)))

\* C3: with exclude_additive = true the guesses returned are the
\* least L! * product(guesses) over all exact covers, and when m0 spans the
\* password and m1, m2 partition it the result is [m0] when
\* m0.guesses < 2 * m1.guesses * m2.guesses and [m1, m2] when it is greater.
C3_MinimalWithoutAdditive ==
    (Returned /\ n > 0 /\ exclude_additive) =>
        /\ Guesses = MinCost(TRUE)
        /\ IsCoverInput =>
            /\ Less(G0, TwiceG1G2) => Sequence = <<matches[1]>>
            /\ Less(TwiceG1G2, G0) => Sequence = <<matches[2], matches[3]>>

-----------------------------------------------------------------------------
(* C4 *)

\* C4: for the empty password the call returns normally, with guesses 1,
\* guesses_log10 0 and an empty sequence; it does not abort.
C4_EmptyPasswordReturns ==
    n = 0 =>
        /\ pc # "panicked"
        /\ Returned => /\ Guesses = FromNat(1)
                       /\ Unwrap(result).guesses_log10 = 0
                       /\ Sequence = <<>>

-----------------------------------------------------------------------------
(* C5 *)

\* C5: two calls on the same input return equal guesses and an equal
\* sequence, whatever order the tables' entries are iterated in.
C5_SameResultOnRerun == (Returned /\ prev # None) => result = prev

-----------------------------------------------------------------------------
(* C6 *)

\* C6: with no candidate match of pattern bruteforce, the sequence returned
\* for a non-empty password never has two adjacent bruteforce matches.
C6_NoAdjacentBruteforce ==
    (Returned /\ n > 0) =>
        \A x \in 1..(Len(Sequence) - 1) :
            ~(Sequence[x].pattern = "bruteforce"
                  /\ Sequence[x + 1].pattern = "bruteforce")

\* a sequence with a bruteforce filler next to a candidate match was returned
C6_Witness ==
    /\ Returned
    /\ \E x \in 1..(Len(Sequence) - 1) :
           Sequence[x].pattern = "bruteforce" /\ Sequence[x + 1].pattern # "bruteforce"

-----------------------------------------------------------------------------
(* C7 *)

Shape(m) == [pattern |-> m.pattern, i |-> m.i, j |-> m.j, token |-> m.token]

FillerShape(i, j) ==
    [pattern |-> "bruteforce", i |-> i, j |-> j, token |-> Slice(password, i, j)]

\* the match between the fillers of its uncovered sides, in position order
AroundMatch(m) ==
    (IF m.i > 0 THEN <<FillerShape(0, m.i - 1)>> ELSE <<>>)
        \o <<Shape(m)>>
        \o (IF m.j < n - 1 THEN <<FillerShape(m.j + 1, n - 1)>> ELSE <<>>)

Shapes(cover) == [x \in 1..Len(cover) |-> Shape(cover[x])]

\* C7: with exclude_additive = true and at most one candidate match, of
\* guesses 1, the sequence returned is that match with one bruteforce filler
\* for each non-empty uncovered side, in position order; with no candidate
\* match it is the single bruteforce match spanning the password.
C7_MatchAndFillers ==
    (/\ Returned /\ n > 0 /\ exclude_additive
     /\ Len(matches) <= 1
     /\ \A x \in 1..Len(matches) : matches[x].guesses = Some(FromNat(1)))
    => /\ Shapes(Sequence) = IF matches = <<>> THEN <<FillerShape(0, n - 1)>>
                             ELSE AroundMatch(matches[1])
       /\ \A x \in 1..Len(Sequence) :
              Sequence[x].pattern # "bruteforce" => Sequence[x] = matches[1]

-----------------------------------------------------------------------------
(* C8 *)

\* C8: the arithmetic of update never wraps and never aborts: each result is
\* the exact value, or u64::MAX when the exact value exceeds it.
C8_SaturatingArithmetic ==
    /\ n > 0 => pc # "panicked"
    /\ \A s \in 1..Len(calc) : calc[s].got = Sat(calc[s].exact)

-----------------------------------------------------------------------------
(* C9 *)

\* C9: in every table optimal.g[k], a longer cover is kept only when it is
\* strictly cheaper than every shorter cover ending at the same k.
C9_PruningInvariant ==
    \A kk \in DOMAIN optimal.g :
        \A l1 \in DOMAIN optimal.g[kk], l2 \in DOMAIN optimal.g[kk] :
            l1 < l2 => Less(optimal.g[kk][l2], optimal.g[kk][l1])

-----------------------------------------------------------------------------
(* C10 *)

\* C10: for a date in the matcher's range the date estimator returns exactly
\* max(|year - 2000|, 20) * 365, times 4 with a separator; nothing overflows.
C10_DateGuessesExact ==
    dres # None =>
        /\ ~Unwrap(dres).abort
        /\ Unwrap(dres).guesses =
               FromNat(Max2(Abs(dm.year - 2000), 20) * 365
                           * (IF dm.separator THEN 4 ELSE 1))

\* unwind is about to read optimal.m[uk][ul] (line 149)
AtWalk ==
    \/ pc = "scan" /\ pending = {}
    \/ pc = "walk"

\* l minimises optimal.g[n - 1]
MinimisesG(l) ==
    /\ l \in DOMAIN optimal.g[n - 1]
    /\ \A c \in DOMAIN optimal.g[n - 1] :
           Leq(optimal.g[n - 1][l], optimal.g[n - 1][c])

\* C13: for a non-empty password, unwind's walk always finds the entry it
\* reads, the match it finds starts at 0 exactly when l = 1, the sequence
\* has the length L that minimises optimal.g[n - 1], and the guesses
\* returned are L! * the product of the cached guesses of the sequence's
\* matches, plus 10000^(L - 1) unless exclude_additive.
C13_UnwindConsistent ==
    n > 0 =>
        /\ AtWalk =>
               /\ ul # None
               /\ Unwrap(ul) \in DOMAIN optimal.m[uk]
               /\ optimal.m[uk][Unwrap(ul)].i = 0 <=> Unwrap(ul) = 1
        /\ pc = "return" => MinimisesG(Len(seq))
        /\ Returned =>
               /\ MinimisesG(Len(Sequence))
               /\ Guesses = Cost(Sequence, exclude_additive)

\* C11: n_ck never aborts, for any n and k; a call whose running product
\* r * n overflowed returned the largest u64, and a call without overflow
\* returned 0 when k > n and 1 when k = 0.
C11_NckNeverAborts ==
    /\ pc # "n_ck_panic"
    /\ \A c \in 1..Len(nck.outs) :
           /\ nck.outs[c].overflowed => nck.outs[c].value = MaxU64
           /\ (~nck.outs[c].overflowed /\ Less(nck.outs[c].n, nck.outs[c].k))
                  => nck.outs[c].value = <<>>
           /\ (~nck.outs[c].overflowed /\ nck.outs[c].k = <<>>)
                  => nck.outs[c].value = FromNat(1)

\* line 501: Pascal's rule is stated for n below this
PascalLimit == 63

\* the three calls of Pascal's rule have returned, for n below PascalLimit
PascalCase ==
    /\ pc = "n_ck_done"
    /\ Len(nck.outs) = 3
    /\ Less(nck.outs[1].n, FromNat(PascalLimit))

\* C12: for 1 <= n < 63 and k >= 1, k > n included,
\* n_ck(n, k) = n_ck(n - 1, k - 1) + n_ck(n - 1, k), the sum fitting u64;
\* and below 63 n_ck(n, 0) = 1 and n_ck(0, k) = 0 for k >= 1.
C12_PascalsRule ==
    /\ PascalCase =>
           /\ ~Overflows(Add(nck.outs[2].value, nck.outs[3].value))
           /\ nck.outs[1].value = Add(nck.outs[2].value, nck.outs[3].value)
    /\ \A c \in 1..Len(nck.outs) :
           Less(nck.outs[c].n, FromNat(PascalLimit)) =>
               /\ nck.outs[c].k = <<>> => nck.outs[c].value = FromNat(1)
               /\ (nck.outs[c].n = <<>> /\ nck.outs[c].k # <<>>)
                      => nck.outs[c].value = <<>>

\* Pascal's rule on a coefficient that takes all eight bytes of the u64
C12_Witness ==
    /\ PascalCase
    /\ Len(nck.outs[1].value) = U64Limbs
    /\ nck.outs[2].value # <<>>
    /\ nck.outs[3].value # <<>>

=============================================================================
